---------------------------- MODULE Spec2Model ----------------------------
(***************************************************************************)
(* Model of src/update-dashboard.py: the Care-Alarm organisation           *)
(* dashboard updater.  One run of the script fetches four GitHub           *)
(* endpoints, formats six markdown fragments and splices them into         *)
(* README.md between HTML-comment markers.                                 *)
(*                                                                         *)
(* Text is modelled as a sequence of tokens (TLA+ strings).  A marker is   *)
(* one token, a description is a sequence of one-character tokens, a       *)
(* number is rendered as its decimal digits.  Emoji are written as ASCII   *)
(* names in brackets.  Timestamps are integers counting seconds.           *)
(***************************************************************************)
EXTENDS Integers, Sequences, FiniteSets

VARIABLES
    remote,   \* the hosting platform: status and body of each endpoint
    fs,       \* README.md: [exists, content]
    now,      \* the local clock, in seconds
    proc,     \* the last process: [state, exit_code, raised]
    log       \* what each run so far computed (locals of update_readme)

vars == <<remote, fs, now, proc, log>>

--------------------------------------------------------------------------
(* Program constants *)

HTTP_OK == 200
RepoLimit == 10
ActivityLimit == 6
DescLimit == 80
FreshDays == 1
WeekDays == 7
BuildRepoLimit == 4
RunsPerRepo == 2
MemberLimit == 8
ReleaseRepoLimit == 5
ReleasesPerRepo == 2
ReleaseLimit == 5
LanguageLimit == 8
SecondsPerDay == 86400

--------------------------------------------------------------------------
(* Bounds of the model *)

MaxRuns == 2        \* runs of the script in one behaviour
MaxNow == 1         \* clock ticks between runs
MaxDocLen == 4      \* marker tokens in the free part of a document
MaxRunRepos == 1    \* repositories in the family of whole runs
MaxRepos == 1       \* repositories in the formatter family
MaxAgeDays == 2     \* oldest timestamp of the formatter families, in days
MaxDescExtra == 2   \* description lengths reach DescLimit + MaxDescExtra
MaxRelRepos == 3    \* repositories in the releases family
MaxRelDay == 2      \* publish days in the releases family
MaxShared == 3      \* repositories that may share or lack a language

\* the clock of the initial states
StartNow == 20 * SecondsPerDay

--------------------------------------------------------------------------
(* Sequences of tokens *)

Min(a, b) == IF a < b THEN a ELSE b

\* s[:n]
Take(s, n) == SubSeq(s, 1, Min(n, Len(s)))

\* s[i:] with i a 1-based position
From(s, i) == SubSeq(s, i, Len(s))

RECURSIVE Concat(_)
\* "".join(list)
Concat(list) == IF list = <<>> THEN <<>> ELSE Head(list) \o Concat(Tail(list))

RECURSIVE JoinSeq(_, _)
\* sep.join(list)
JoinSeq(list, sep) ==
    IF list = <<>> THEN <<>>
    ELSE IF Len(list) = 1 THEN list[1]
    ELSE list[1] \o sep \o JoinSeq(Tail(list), sep)

\* str.find(tok): the first position of tok, 0 where Python gives -1
Find(s, tok) ==
    IF \E i \in 1..Len(s) : s[i] = tok
    THEN CHOOSE i \in 1..Len(s) : s[i] = tok /\ \A j \in 1..(i - 1) : s[j] # tok
    ELSE 0

\* tok in s
Contains(s, tok) == \E i \in 1..Len(s) : s[i] = tok

RECURSIVE ReplaceAll(_, _, _)
\* str.replace(tok, repl): every occurrence, the text split in halves
ReplaceAll(s, tok, repl) ==
    IF s = <<>> THEN <<>>
    ELSE IF Len(s) = 1 THEN (IF s[1] = tok THEN repl ELSE s)
    ELSE ReplaceAll(SubSeq(s, 1, Len(s) \div 2), tok, repl)
             \o ReplaceAll(SubSeq(s, (Len(s) \div 2) + 1, Len(s)), tok, repl)

DigitChars == <<"0", "1", "2", "3", "4", "5", "6", "7", "8", "9">>

RECURSIVE NatDigits(_)
NatDigits(n) ==
    IF n < 10 THEN <<DigitChars[n + 1]>>
    ELSE NatDigits(n \div 10) \o <<DigitChars[(n % 10) + 1]>>

\* str(n) of an int
IntStr(n) == IF n < 0 THEN <<"-">> \o NatDigits(-n) ELSE NatDigits(n)

--------------------------------------------------------------------------
(* JSON values of the remote *)

JNull == [kind |-> "null"]
JAbsent == [kind |-> "absent"]
JStr(s) == [kind |-> "str", val |-> s]
JArray(items) == [kind |-> "array", items |-> items]
EmptyList == JArray(<<>>)

\* dict.get(key, default): the default only when the key is absent
Get(v, default) == IF v.kind = "absent" THEN default ELSE v

\* dict.get(key): None when the key is absent
GetOrNone(v) == Get(v, JNull)

\* truth value of a JSON string or None
Truthy(v) == v.kind = "str" /\ v.val # <<>>

\* f"{v}" of a JSON string or None
Fmt(v) == IF v.kind = "str" THEN v.val ELSE <<"None">>

--------------------------------------------------------------------------
(* API client *)

get_org_repositories(r) ==
    IF r.repos.status # HTTP_OK THEN EmptyList ELSE r.repos.body

get_org_members(r) ==
    IF r.members.status # HTTP_OK THEN EmptyList ELSE r.members.body

\* a get_workflow_runs that never finds a run
get_workflow_runs_Empty(repo) == EmptyList

\* the response of /repos/{full_name}/actions/runs is kept with the repository
get_workflow_runs(repo) ==
    IF repo.runs.status # HTTP_OK THEN EmptyList
    ELSE Get(repo.runs.body.workflow_runs, EmptyList)

\* the response of /repos/{full_name}/releases is kept with the repository
get_repo_releases(repo) ==
    IF repo.releases.status # HTTP_OK THEN EmptyList ELSE repo.releases.body


--------------------------------------------------------------------------
(* Ages *)

\* a day count that rounds toward zero instead of down
DaysAgo_TowardZero(clock, date) ==
    IF clock >= date THEN (clock - date) \div SecondsPerDay
    ELSE -((date - clock) \div SecondsPerDay)

\* (datetime.now(tz) - date).days: timedelta.days is the floor of the
\* difference in days, negative for a timestamp later than the clock
DaysAgo(clock, date) == (clock - date) \div SecondsPerDay

\* format_repository_activity's time_str
ActivityTimeStr(time_ago) ==
    IF time_ago = 0 THEN <<"today">>
    ELSE IF time_ago = 1 THEN <<"yesterday">>
    ELSE IntStr(time_ago) \o <<" days ago">>

\* format_build_status's time_str
BuildTimeStr(time_ago) ==
    IF time_ago = 0 THEN <<"today">>
    ELSE IF time_ago = 1 THEN <<"yesterday">>
    ELSE IntStr(time_ago) \o <<"d ago">>

\* format_latest_releases's time_str
ReleaseTimeStr(time_ago) ==
    IF time_ago = 0 THEN <<"today">>
    ELSE IF time_ago = 1 THEN <<"yesterday">>
    ELSE IntStr(time_ago) \o <<"d ago">>

--------------------------------------------------------------------------
(* format_repository_activity *)

NoDescription ==
    JStr(<<"N", "o", " ", "d", "e", "s", "c", "r", "i", "p", "t", "i", "o", "n">>)

UnknownLanguage == JStr(<<"Unknown">>)

NoActivity == <<"No recent activity found.">>

\* a truncation that marks a description of exactly 80 characters as cut
TruncateDescription_Inclusive(description) ==
    Take(description, DescLimit)
        \o (IF Len(description) >= DescLimit THEN <<"...">> ELSE <<>>)

\* description[:80] and an ellipsis if len(description) > 80
TruncateDescription(description) ==
    Take(description, DescLimit)
        \o (IF Len(description) > DescLimit THEN <<"...">> ELSE <<>>)

ActivityEmoji(time_ago) ==
    IF time_ago <= FreshDays THEN "[fire]"
    ELSE IF time_ago <= WeekDays THEN "[memo]"
    ELSE "[books]"

\* the f-string appended to activity_md
ActivityLine(emoji, name, html_url, language, desc_part, stars, time_str) ==
    <<emoji, " **[">> \o name \o <<"](">> \o html_url \o <<")** (">> \o language
        \o <<") - ">> \o desc_part \o <<"\n", "   [star] ">> \o IntStr(stars)
        \o <<" stars * Updated ">> \o time_str

ActivityEntry(repo, clock) ==
    LET description == Get(repo.description, NoDescription)
        language == Get(repo.language, UnknownLanguage)
        time_ago == DaysAgo(clock, repo.updated_at)
    IN  ActivityLine(ActivityEmoji(time_ago), repo.name, repo.html_url,
                     Fmt(language), TruncateDescription(description.val),
                     repo.stargazers_count, ActivityTimeStr(time_ago))

\* description[:80] of None is a TypeError
ActivityRaises(repos) ==
    \E i \in 1..Min(ActivityLimit, Len(repos)) :
        Get(repos[i].description, NoDescription).kind # "str"

format_repository_activity(repos, clock) ==
    IF repos = <<>> THEN NoActivity
    ELSE LET shown == Take(repos, ActivityLimit)
             activity_md == [i \in 1..Len(shown) |-> ActivityEntry(shown[i], clock)]
         IN  JoinSeq(activity_md, <<"\n", "\n">>)

--------------------------------------------------------------------------
(* format_build_status *)

NoBuilds == <<"No recent builds found.">>

\* the lookup of run.get(conclusion) or run.get(status)
StatusEmoji(run) ==
    LET conclusion == GetOrNone(run.conclusion)
        key == IF Truthy(conclusion) THEN conclusion ELSE GetOrNone(run.status)
    IN  IF key = JStr(<<"success">>) THEN "[check]"
        ELSE IF key = JStr(<<"failure">>) THEN "[cross]"
        ELSE IF key = JStr(<<"cancelled">>) THEN "[warning]"
        ELSE IF key = JStr(<<"in_progress">>) THEN "[yellow]"
        ELSE "[question]"

BuildLine(status_emoji, workflow_name, branch, time_str) ==
    <<"   ", status_emoji, " ">> \o workflow_name \o <<" on [">> \o branch
        \o <<"] * ">> \o time_str

BuildEntry(run, clock) ==
    BuildLine(StatusEmoji(run), run.name, run.head_branch,
              BuildTimeStr(DaysAgo(clock, run.created_at)))

BuildBlock(repo, clock) ==
    LET fetched == get_workflow_runs(repo).items
        repo_builds == [i \in 1..Len(fetched) |-> BuildEntry(fetched[i], clock)]
    IN  <<"**">> \o repo.name \o <<"**", "\n">> \o JoinSeq(repo_builds, <<"\n">>)

RECURSIVE BuildInfo(_, _)
\* build_info: one block for each repository that has runs
BuildInfo(repos, clock) ==
    IF repos = <<>> THEN <<>>
    ELSE (IF get_workflow_runs(Head(repos)).items = <<>> THEN <<>>
          ELSE <<BuildBlock(Head(repos), clock)>>)
         \o BuildInfo(Tail(repos), clock)

\* a format_build_status without its fallback sentence
format_build_status_NoFallback(repos, clock) ==
    JoinSeq(BuildInfo(Take(repos, BuildRepoLimit), clock), <<"\n", "\n">>)

format_build_status(repos, clock) ==
    LET build_info == BuildInfo(Take(repos, BuildRepoLimit), clock)
    IN  IF build_info # <<>> THEN JoinSeq(build_info, <<"\n", "\n">>) ELSE NoBuilds

--------------------------------------------------------------------------
(* format_team_members *)

NoMembers == <<"No team members found.">>

MemberEntry(member) ==
    <<"[<img src=">> \o member.avatar_url \o <<" width=30 height=30 alt=">>
        \o member.login \o <<">](">> \o member.html_url \o <<")">>

format_team_members(members) ==
    IF members = <<>> THEN NoMembers
    ELSE LET shown == Take(members, MemberLimit)
             member_info == [i \in 1..Len(shown) |-> MemberEntry(shown[i])]
         IN  JoinSeq(member_info, <<" ">>)

--------------------------------------------------------------------------
(* format_active_repos *)

NoRepositories == <<"No repositories found.">>

ActiveEntry(repo) ==
    <<IF repo.private THEN "[lock]" ELSE "[globe]", " **[">> \o repo.name
        \o <<"](">> \o repo.html_url \o <<")** (">>
        \o Fmt(Get(repo.language, UnknownLanguage)) \o <<") - [star] ">>
        \o IntStr(repo.stargazers_count)

format_active_repos(repos) ==
    IF repos = <<>> THEN NoRepositories
    ELSE JoinSeq([i \in 1..Len(repos) |-> ActiveEntry(repos[i])], <<"\n">>)

--------------------------------------------------------------------------
(* format_latest_releases *)

NoReleases == <<"No recent releases found.">>

\* release_data of one fetched release
ReleaseData(repo, release) ==
    [repo |-> repo.name, tag |-> release.tag_name, url |-> release.html_url,
     published_at |-> release.published_at, prerelease |-> release.prerelease]

RECURSIVE AllReleases(_)
\* all_releases before the sort: repository by repository, in fetch order
AllReleases(repos) ==
    IF repos = <<>> THEN <<>>
    ELSE LET fetched == get_repo_releases(Head(repos)).items
         IN  [i \in 1..Len(fetched) |-> ReleaseData(Head(repos), fetched[i])]
                 \o AllReleases(Tail(repos))

\* the place of x in an ascending sort
InsertRelease_Ascending(sorted, x) ==
    LET k == Cardinality({i \in 1..Len(sorted) :
                              sorted[i].published_at <= x.published_at})
    IN  SubSeq(sorted, 1, k) \o <<x>> \o SubSeq(sorted, k + 1, Len(sorted))

\* where a stable descending sort puts x: behind every entry whose key is
\* not smaller
InsertRelease(sorted, x) ==
    LET k == Cardinality({i \in 1..Len(sorted) :
                              sorted[i].published_at >= x.published_at})
    IN  SubSeq(sorted, 1, k) \o <<x>> \o SubSeq(sorted, k + 1, Len(sorted))

RECURSIVE SortReleases(_, _)
\* all_releases.sort(key=published_at, reverse=True): stable
SortReleases(list, sorted) ==
    IF list = <<>> THEN sorted
    ELSE SortReleases(Tail(list), InsertRelease(sorted, Head(list)))

ReleaseLine(emoji, repo, tag, url, time_str) ==
    <<emoji, " **[">> \o repo \o <<" ">> \o tag \o <<"](">> \o url \o <<")** - ">>
        \o time_str

ReleaseEntry(release, clock) ==
    ReleaseLine(IF ~release.prerelease THEN "[rocket]" ELSE "[flask]",
                release.repo, release.tag, release.url,
                ReleaseTimeStr(DaysAgo(clock, release.published_at)))

\* all_releases[:5] after the sort
ShownReleases(repos) ==
    Take(SortReleases(AllReleases(Take(repos, ReleaseRepoLimit)), <<>>), ReleaseLimit)

format_latest_releases(repos, clock) ==
    LET shown == ShownReleases(repos)
    IN  IF shown = <<>> THEN NoReleases
        ELSE JoinSeq([i \in 1..Len(shown) |-> ReleaseEntry(shown[i], clock)], <<"\n">>)

--------------------------------------------------------------------------
(* format_org_languages *)

NoLanguages == <<"No language data available.">>

RECURSIVE LanguageStats(_, _)
\* language_stats as a list of [language, count] in the order of first
\* appearance (the insertion order of the dict)
LanguageStats(repos, stats) ==
    IF repos = <<>> THEN stats
    ELSE LET language == GetOrNone(Head(repos).language)
             at == {i \in 1..Len(stats) : stats[i].language = language}
             next == IF ~Truthy(language) THEN stats
                     ELSE IF at = {}
                          THEN Append(stats, [language |-> language, count |-> 1])
                          ELSE [i \in 1..Len(stats) |->
                                   IF i \in at
                                   THEN [stats[i] EXCEPT !.count = @ + 1]
                                   ELSE stats[i]]
         IN  LanguageStats(Tail(repos), next)

InsertLanguage(sorted, x) ==
    LET k == Cardinality({i \in 1..Len(sorted) : sorted[i].count >= x.count})
    IN  SubSeq(sorted, 1, k) \o <<x>> \o SubSeq(sorted, k + 1, Len(sorted))

RECURSIVE SortLanguages(_, _)
\* sorted(language_stats.items(), key=count, reverse=True): stable
SortLanguages(list, sorted) ==
    IF list = <<>> THEN sorted
    ELSE SortLanguages(Tail(list), InsertLanguage(sorted, Head(list)))

\* (count / total) * 100 in tenths of a percent, rounded as "%.1f" rounds:
\* to the nearest tenth, a tie to the even one
PercentTenths(count, total) ==
    LET q == (count * 1000) \div total
        r == (count * 1000) % total
    IN  IF 2 * r > total \/ (2 * r = total /\ q % 2 = 1) THEN q + 1 ELSE q

\* a percentage of the repositories that declare a language
Percentage_OfDeclaring(count, repos) ==
    PercentTenths(count,
                  Cardinality({i \in 1..Len(repos) :
                                  Truthy(GetOrNone(repos[i].language))}))

\* percentage = (count / len(repos)) * 100
Percentage(count, repos) == PercentTenths(count, Len(repos))

\* f"{percentage:.1f}"
Fixed1(tenths) == IntStr(tenths \div 10) \o <<".">> \o IntStr(tenths % 10)

LanguageItem(language, count, tenths) ==
    <<"**">> \o language \o <<"** (">> \o IntStr(count) \o <<" repos, ">>
        \o Fixed1(tenths) \o <<"%)">>

format_org_languages(repos) ==
    LET sorted_languages == SortLanguages(LanguageStats(repos, <<>>), <<>>)
        shown == Take(sorted_languages, LanguageLimit)
    IN  IF sorted_languages = <<>> THEN NoLanguages
        ELSE JoinSeq([i \in 1..Len(shown) |->
                         LanguageItem(shown[i].language.val, shown[i].count,
                                      Percentage(shown[i].count, repos))],
                     <<" * ">>)

--------------------------------------------------------------------------
(* The document updater *)

ActivityStart == "<!-- RECENT_ACTIVITY:START -->"
BuildStart == "<!-- BUILD_STATUS:START -->"
TeamStart == "<!-- TEAM_MEMBERS:START -->"
ActiveStart == "<!-- ACTIVE_REPOS:START -->"
ReleasesStart == "<!-- LATEST_RELEASES:START -->"
LanguagesStart == "<!-- ORG_LANGUAGES:START -->"
LastUpdated == "<!-- LAST_UPDATED -->"

\* the keys of replacements, in the order of the dict
Markers ==
    <<ActivityStart, BuildStart, TeamStart, ActiveStart, ReleasesStart,
      LanguagesStart, LastUpdated>>

StartMarkers == {Markers[i] : i \in 1..(Len(Markers) - 1)}

\* marker.endswith(START -->)
IsStart(marker) == marker \in StartMarkers

\* marker.replace(START, END)
EndOf(marker) ==
    CASE marker = ActivityStart -> "<!-- RECENT_ACTIVITY:END -->"
      [] marker = BuildStart -> "<!-- BUILD_STATUS:END -->"
      [] marker = TeamStart -> "<!-- TEAM_MEMBERS:END -->"
      [] marker = ActiveStart -> "<!-- ACTIVE_REPOS:END -->"
      [] marker = ReleasesStart -> "<!-- LATEST_RELEASES:END -->"
      [] marker = LanguagesStart -> "<!-- ORG_LANGUAGES:END -->"
      [] OTHER -> marker

\* datetime.now().strftime(%Y-%m-%d %H:%M:%S UTC): the clock, to the second
Timestamp(clock) == IntStr(clock) \o <<" UTC">>

\* a splice that resumes behind the END marker and so drops it
SpliceSection_DropEnd(content, marker, replacement) ==
    LET start_idx == Find(content, marker)
        end_idx == Find(content, EndOf(marker))
    IN  IF start_idx # 0 /\ end_idx # 0
        THEN Take(content, start_idx) \o <<"\n">> \o replacement \o <<"\n">>
                 \o From(content, end_idx + 1)
        ELSE content

\* a splice that inserts the replacement and keeps the old section
SpliceSection_KeepOld(content, marker, replacement) ==
    LET start_idx == Find(content, marker)
        end_idx == Find(content, EndOf(marker))
    IN  IF start_idx # 0 /\ end_idx # 0
        THEN Take(content, start_idx) \o <<"\n">> \o replacement \o <<"\n">>
                 \o From(content, start_idx + 1)
        ELSE content

\* content[:start_idx + len(marker)], a newline, the replacement, a newline,
\* content[end_idx:]
SpliceSection(content, marker, replacement) ==
    LET start_idx == Find(content, marker)
        end_idx == Find(content, EndOf(marker))
    IN  IF start_idx # 0 /\ end_idx # 0
        THEN Take(content, start_idx) \o <<"\n">> \o replacement \o <<"\n">>
                 \o From(content, end_idx)
        ELSE content

\* a replacement of the first occurrence only
ReplaceToken_First(content, marker, replacement) ==
    LET at == Find(content, marker)
    IN  IF at = 0 THEN content
        ELSE Take(content, at - 1) \o replacement \o From(content, at + 1)

\* content.replace(marker, replacement)
ReplaceToken(content, marker, replacement) == ReplaceAll(content, marker, replacement)

\* one turn of the loop over replacements.items()
ReplaceMarker(content, marker, replacement) ==
    IF Contains(content, marker)
    THEN IF IsStart(marker)
         THEN SpliceSection(content, marker, replacement)
         ELSE ReplaceToken(content, marker, replacement)
    ELSE content

RECURSIVE ReplaceFrom(_, _, _)
\* the contents after each turn of the loop, from turn i on
ReplaceFrom(content, replacements, i) ==
    IF i > Len(Markers) THEN <<>>
    ELSE LET next == ReplaceMarker(content, Markers[i], replacements[i])
         IN  <<next>> \o ReplaceFrom(next, replacements, i + 1)

--------------------------------------------------------------------------
(* One run of the script: update_readme and the exit of the process *)

Idle == [state |-> "idle", exit_code |-> 0, raised |-> FALSE]

\* an exit that reports success whatever happened
Exited_Zero(success) == [state |-> "exited", exit_code |-> 0, raised |-> FALSE]

\* sys.exit(0 if success else 1)
Exited(success) ==
    [state |-> "exited", exit_code |-> IF success THEN 0 ELSE 1, raised |-> FALSE]

\* an exception nobody catches: the interpreter prints it and exits with 1
Uncaught == [state |-> "exited", exit_code |-> 1, raised |-> TRUE]

\* what a run has computed before its first fetch
Started(file, clock) ==
    [before |-> file, clock |-> clock, repos |-> EmptyList, members |-> EmptyList,
     workflow_runs |-> <<>>, releases |-> <<>>, contents |-> <<>>, read |-> <<>>,
     steps |-> <<>>, wrote |-> FALSE]

\* the six formatted fragments, in the order of replacements
Contents(repos, members, clock) ==
    <<format_repository_activity(repos, clock),
      format_build_status(repos, clock),
      format_team_members(members),
      format_active_repos(repos),
      format_latest_releases(repos, clock),
      format_org_languages(repos)>>

update_readme ==
    /\ Len(log) < MaxRuns
    /\ LET repos == get_org_repositories(remote)
           members == get_org_members(remote)
           built == Take(repos.items, BuildRepoLimit)
           released == Take(repos.items, ReleaseRepoLimit)
           fetched ==
               [Started(fs, now) EXCEPT
                    !.repos = repos,
                    !.members = members]
           formatted ==
               [fetched EXCEPT
                    !.workflow_runs =
                        [i \in 1..Len(built) |-> get_workflow_runs(built[i])],
                    !.releases =
                        [i \in 1..Len(released) |-> get_repo_releases(released[i])],
                    !.contents = Contents(repos.items, members.items, now)]
           replacements == formatted.contents \o <<Timestamp(now)>>
           steps == ReplaceFrom(fs.content, replacements, 1)
       IN  IF ActivityRaises(repos.items)
           THEN /\ proc' = Uncaught
                /\ log' = Append(log, fetched)
                /\ fs' = fs
           ELSE IF ~fs.exists
           THEN /\ proc' = Exited(FALSE)
                /\ log' = Append(log, formatted)
                /\ fs' = fs
           ELSE /\ proc' = Exited(TRUE)
                /\ log' = Append(log, [formatted EXCEPT !.read = fs.content,
                                                        !.steps = steps,
                                                        !.wrote = TRUE])
                /\ fs' = [fs EXCEPT !.content = steps[Len(Markers)]]
    /\ UNCHANGED <<remote, now>>

\* a second passes between two runs
Tick ==
    /\ log # <<>>
    /\ now < StartNow + MaxNow
    /\ now' = now + 1
    /\ UNCHANGED <<remote, fs, proc, log>>

Next == update_readme \/ Tick

\* the last run
LastRun == log[Len(log)]

--------------------------------------------------------------------------
(* Values of the remote used by the initial states *)

Resp(status, body) == [status |-> status, body |-> body]

NotFound == 404
NotModified == 304

\* the body of a response that is not a 200: an error message, never parsed
ErrorBody == [kind |-> "object", message |-> <<"Not Found">>]

RunsBody(list) == [kind |-> "object", workflow_runs |-> JArray(list)]

MkRun(id, conclusion, created_at) ==
    [name |-> <<"CI">> \o IntStr(id), head_branch |-> <<"main">>,
     conclusion |-> conclusion, status |-> JStr(<<"in_progress">>),
     created_at |-> created_at]

MkRelease(id, published_at) ==
    [tag_name |-> <<"v">> \o IntStr(id),
     html_url |-> <<"https://github.com/Care-Alarm/releases/v">> \o IntStr(id),
     published_at |-> published_at, prerelease |-> (id % 2 = 0)]

MkRepo(id, description, language, updated_at, runs_resp, releases_resp) ==
    [name |-> <<"repo">> \o IntStr(id),
     html_url |-> <<"https://github.com/Care-Alarm/repo">> \o IntStr(id),
     description |-> description, language |-> language,
     updated_at |-> updated_at, stargazers_count |-> id,
     private |-> (id % 2 = 0), runs |-> runs_resp, releases |-> releases_resp]

MkMember(id) ==
    [login |-> <<"user">> \o IntStr(id),
     avatar_url |-> <<"https://avatars.githubusercontent.com/u/">> \o IntStr(id),
     html_url |-> <<"https://github.com/user">> \o IntStr(id)]

MkRemote(repos_resp, members_resp) == [repos |-> repos_resp, members |-> members_resp]

Python == JStr(<<"Python">>)

\* one repository with a run and a release, one member
PlainRemote ==
    MkRemote(
        Resp(HTTP_OK, JArray(<<MkRepo(1, JStr(<<"a", "p", "p">>), Python, StartNow,
                 Resp(HTTP_OK, RunsBody(<<MkRun(1, JStr(<<"success">>), StartNow)>>)),
                 Resp(HTTP_OK, JArray(<<MkRelease(1, StartNow)>>)))>>)),
        Resp(HTTP_OK, JArray(<<MkMember(1)>>)))

\* one repository whose description quotes the timestamp placeholder
QuotingRemote ==
    MkRemote(
        Resp(HTTP_OK, JArray(<<MkRepo(1, JStr(<<"s", "e", "e", " ", LastUpdated>>),
                 Python, StartNow,
                 Resp(NotFound, ErrorBody), Resp(NotFound, ErrorBody))>>)),
        Resp(NotFound, ErrorBody))

--------------------------------------------------------------------------
(* Documents: a free part over the markers of the first section, the START
   marker of the second and the timestamp placeholder, text after every
   marker, and a tail that closes the second section and holds the other
   four *)

FreeAlphabet == {ActivityStart, EndOf(ActivityStart), BuildStart, LastUpdated}

FreeParts == UNION {[1..n -> FreeAlphabet] : n \in 0..MaxDocLen}

WithText(free) ==
    <<"# Dashboard">> \o Concat([i \in 1..Len(free) |-> <<free[i], DigitChars[(i % 10) + 1]>>])

RestDoc ==
    <<TeamStart, "old team", EndOf(TeamStart), "\n",
      ActiveStart, EndOf(ActiveStart), "\n",
      ReleasesStart, "old releases", EndOf(ReleasesStart), "\n",
      LanguagesStart, "old languages", EndOf(LanguagesStart), "\n",
      "Last updated: ", LastUpdated, "\n">>

Tails == {<<>>, <<EndOf(BuildStart), "\n">> \o RestDoc}

\* a README with its seven markers in place
PlainDoc ==
    WithText(<<ActivityStart, EndOf(ActivityStart), BuildStart>>)
        \o <<EndOf(BuildStart), "\n">> \o RestDoc

File(content) == [exists |-> TRUE, content |-> content]
NoFile == [exists |-> FALSE, content |-> <<>>]

--------------------------------------------------------------------------
(* The document updater over every document of the family *)

InitDoc ==
    /\ remote \in {PlainRemote, QuotingRemote}
    /\ fs \in {File(WithText(free) \o tail) : free \in FreeParts, tail \in Tails}
    /\ now = StartNow
    /\ proc = Idle
    /\ log = <<>>

Spec == InitDoc /\ [][Next]_vars

--------------------------------------------------------------------------
(* Vocabulary of the statements about the document *)

Count(s, tok) == Cardinality({i \in 1..Len(s) : s[i] = tok})

EndMarkers == {EndOf(m) : m \in StartMarkers}

MarkerTokens == StartMarkers \cup EndMarkers \cup {LastUpdated}

IsStartOrEnd(tok) == tok \in StartMarkers \cup EndMarkers

\* the START and END markers of a document, in their order
StartEndSeq(doc) == SelectSeq(doc, IsStartOrEnd)

HasNoMarker(s) == \A i \in 1..Len(s) : s[i] \notin MarkerTokens

\* no formatter output of the run holds a marker
CleanRun(run) == \A i \in 1..Len(run.contents) : HasNoMarker(run.contents[i])

\* the replacement of each marker in a run
Replacements(run) == run.contents \o <<Timestamp(run.clock)>>

ReplacementOf(run, marker) ==
    Replacements(run)[CHOOSE i \in 1..Len(Markers) : Markers[i] = marker]

\* the document as run k left it
Written(k) == IF k < Len(log) THEN log[k + 1].before.content ELSE fs.content

\* the document before turn i of the loop of a run, and after it
BeforeTurn(run, i) == IF i = 1 THEN run.read ELSE run.steps[i - 1]
AfterTurn(run, i) == run.steps[i]

\* all seven markers, the END markers too
HasAllMarkers(doc) == \A t \in MarkerTokens : Contains(doc, t)

\* no marker twice, and each START that has its END stands before it with
\* no marker in between
WellFormed(doc) ==
    /\ \A t \in MarkerTokens : Count(doc, t) <= 1
    /\ \A m \in StartMarkers :
           Contains(doc, m) /\ Contains(doc, EndOf(m)) =>
               /\ Find(doc, m) < Find(doc, EndOf(m))
               /\ \A i \in (Find(doc, m) + 1)..(Find(doc, EndOf(m)) - 1) :
                      doc[i] \notin MarkerTokens

\* the positions of doc that a reader from the left replaces: a START not
\* yet replaced whose END comes later, the placeholder not yet replaced
Replaceable(doc, done) ==
    {i \in 1..Len(doc) :
        \/ /\ doc[i] \in StartMarkers \ done
           /\ \E j \in (i + 1)..Len(doc) : doc[j] = EndOf(doc[i])
        \/ doc[i] = LastUpdated /\ LastUpdated \notin done}

RECURSIVE Rewrite(_, _, _)
\* the document read once from left to right: the span from a START to its
\* END becomes newline, replacement, newline; the placeholder becomes the
\* timestamp; each marker is replaced once; every other token is copied
Rewrite(doc, run, done) ==
    IF Replaceable(doc, done) = {} THEN doc
    ELSE LET p == CHOOSE i \in Replaceable(doc, done) :
                      \A j \in Replaceable(doc, done) : i <= j
             tok == doc[p]
             rest == From(doc, p + 1)
         IN  IF tok = LastUpdated
             THEN Take(doc, p - 1) \o ReplacementOf(run, tok)
                      \o Rewrite(rest, run, done \cup {tok})
             ELSE Take(doc, p) \o <<"\n">> \o ReplacementOf(run, tok) \o <<"\n">>
                      \o Rewrite(From(rest, Find(rest, EndOf(tok))), run,
                                 done \cup {tok})

\* the section of marker holds exactly newline, replacement, newline
SectionIs(doc, marker, replacement) ==
    LET s == Find(doc, marker)
    IN  /\ s # 0
        /\ Len(doc) >= s + Len(replacement) + 3
        /\ SubSeq(doc, s + 1, s + Len(replacement) + 3)
               = <<"\n">> \o replacement \o <<"\n", EndOf(marker)>>

\* what C1 says of run k
ReplacedOnce(k) ==
    LET run == log[k]
    IN  /\ Written(k) = Rewrite(run.read, run, {})
        /\ HasAllMarkers(run.read) =>
               /\ \A m \in StartMarkers :
                      SectionIs(Written(k), m, ReplacementOf(run, m))
               /\ ~Contains(Written(k), LastUpdated)

(* C1 as stated: a run replaces each marker of the document exactly once,
   the span between a START and its END by newline, formatter output,
   newline and the placeholder by the timestamp, and leaves every token
   outside the replaced spans as it was. *)
C1_AsStated == \A k \in 1..Len(log) : log[k].wrote => ReplacedOnce(k)

(* C1, amended: the same, on a document in which no marker occurs twice and
   each START that has its END stands before it with no marker in between,
   and with formatter outputs that hold no marker. *)
C1_ReplacedOnce ==
    \A k \in 1..Len(log) :
        log[k].wrote /\ WellFormed(log[k].read) /\ CleanRun(log[k]) => ReplacedOnce(k)

C1_Witness ==
    /\ log # <<>>
    /\ log[1].wrote /\ WellFormed(log[1].read) /\ CleanRun(log[1])
    /\ HasAllMarkers(log[1].read)
    /\ Written(1) # log[1].read

--------------------------------------------------------------------------
(* First occurrence *)

\* the position of the second occurrence of tok
Second(s, tok) ==
    CHOOSE i \in 1..Len(s) : s[i] = tok /\ Count(SubSeq(s, 1, i), tok) = 2

\* the last n tokens
Suffix(s, n) == SubSeq(s, Len(s) - n + 1, Len(s))

\* old with its first tok replaced by replacement, the rest untouched
FirstReplaced(old, tok, replacement) ==
    Take(old, Find(old, tok) - 1) \o replacement \o From(old, Find(old, tok) + 1)

\* new is old with every tok replaced by replacement: each token of old
\* stands in new moved right by what the replacements before it added
EveryReplaced(new, old, tok, replacement) ==
    LET grow == Len(replacement) - 1
        at(i) == i + grow * Count(SubSeq(old, 1, i - 1), tok)
    IN  /\ Len(new) = Len(old) + grow * Count(old, tok)
        /\ \A i \in 1..Len(old) :
               IF old[i] = tok
               THEN SubSeq(new, at(i), at(i) + grow) = replacement
               ELSE new[at(i)] = old[i]

\* the turns of the loop, over all runs, whose marker occurs more than once
RepeatedTurns ==
    {t \in (1..Len(log)) \X (1..Len(Markers)) :
        log[t[1]].wrote /\ Count(BeforeTurn(log[t[1]], t[2]), Markers[t[2]]) > 1}

(* C4 as stated: of a marker that occurs more than once only the first
   occurrence is replaced; every later occurrence stays in the document as
   it was. *)
C4_AsStated ==
    \A t \in RepeatedTurns :
        LET marker == Markers[t[2]]
            old == BeforeTurn(log[t[1]], t[2])
            new == AfterTurn(log[t[1]], t[2])
            later == Len(old) - Second(old, marker) + 1
        IN  IF marker = LastUpdated
            THEN new = FirstReplaced(old, marker, Replacements(log[t[1]])[t[2]])
            ELSE Len(new) >= later /\ Suffix(new, later) = Suffix(old, later)

(* C4, amended: of a START marker that occurs more than once the first
   occurrence is matched with the first occurrence of its END marker: when
   that END follows it, the span between the two is replaced and the
   document from that END on, later occurrences included, stays as it was;
   without an END nothing changes.  The LAST_UPDATED placeholder is replaced
   at every occurrence. *)
C4_FirstPairEveryPlaceholder ==
    \A t \in RepeatedTurns :
        LET marker == Markers[t[2]]
            old == BeforeTurn(log[t[1]], t[2])
            new == AfterTurn(log[t[1]], t[2])
            replacement == Replacements(log[t[1]])[t[2]]
            s == Find(old, marker)
            e == Find(old, EndOf(marker))
            kept == Len(old) - e + 1
        IN  IF marker = LastUpdated
            THEN EveryReplaced(new, old, marker, replacement)
            ELSE /\ e = 0 => new = old
                 /\ e > s =>
                        /\ Len(new) = s + Len(replacement) + 2 + kept
                        /\ Take(new, s) = Take(old, s)
                        /\ SubSeq(new, s + 1, s + Len(replacement) + 2)
                               = <<"\n">> \o replacement \o <<"\n">>
                        /\ Suffix(new, kept) = Suffix(old, kept)

C4_Witness ==
    /\ log # <<>>
    /\ log[1].wrote
    /\ Count(log[1].read, LastUpdated) > 1
    /\ Count(log[1].read, ActivityStart) > 1
    /\ Find(log[1].read, ActivityStart) < Find(log[1].read, EndOf(ActivityStart))
    /\ Second(log[1].read, ActivityStart) > Find(log[1].read, EndOf(ActivityStart))
    /\ Count(Written(1), ActivityStart) > 1
    /\ ~Contains(Written(1), LastUpdated)

--------------------------------------------------------------------------
(* Repeated runs *)

\* every START and END marker once, each START before its END
PairsOnce(doc) ==
    \A m \in StartMarkers :
        /\ Count(doc, m) = 1
        /\ Count(doc, EndOf(m)) = 1
        /\ Find(doc, m) < Find(doc, EndOf(m))

\* no START or END marker between a START and its END
NoOverlap(doc) ==
    \A m \in StartMarkers :
        \A i \in (Find(doc, m) + 1)..(Find(doc, EndOf(m)) - 1) : ~IsStartOrEnd(doc[i])

\* every run so far wrote the document, from outputs that hold no marker
CleanRuns == \A k \in 1..Len(log) : log[k].wrote /\ CleanRun(log[k])

\* a run with the outputs of the run before it leaves the document alone
Idempotent ==
    \A k \in 2..Len(log) :
        log[k].contents = log[k - 1].contents => Written(k) = Written(k - 1)

\* every run leaves the START and END markers of the first document in place
MarkersKept ==
    \A k \in 1..Len(log) : StartEndSeq(Written(k)) = StartEndSeq(log[1].read)

(* C10 as stated: on a document with every START marker once and before its
   END marker, and with formatter outputs that hold no marker, a second run with
   the same outputs leaves the document as the first run left it, and after
   any number of runs the START and END markers of the original document are
   all there, once, in their order. *)
C10_AsStated ==
    log # <<>> /\ CleanRuns /\ PairsOnce(log[1].read) => Idempotent /\ MarkersKept

(* C10, amended: the second run leaves the document as the first left it;
   the START and END markers of the original document are all kept, once
   and in their order, on a document in which moreover no START or END
   marker lies between a START marker and its END marker. *)
C10_Idempotent ==
    log # <<>> /\ CleanRuns /\ PairsOnce(log[1].read) =>
        /\ Idempotent
        /\ NoOverlap(log[1].read) => MarkersKept

C10_Witness ==
    /\ Len(log) >= 2
    /\ CleanRuns /\ PairsOnce(log[1].read) /\ NoOverlap(log[1].read)
    /\ log[2].contents = log[1].contents
    /\ log[2].clock > log[1].clock
    /\ Contains(log[1].read, LastUpdated)
    /\ Written(1) # log[1].read
    /\ Written(2) = Written(1)

--------------------------------------------------------------------------
(* Whole runs: every endpoint answers 200 or not, a description may be
   missing or null, the document may not exist *)

Statuses == {HTTP_OK, NotModified, NotFound}

App == JStr(<<"a", "p", "p">>)

RunsResps ==
    {Resp(NotFound, ErrorBody),
     Resp(HTTP_OK, [kind |-> "object", workflow_runs |-> JAbsent]),
     Resp(HTTP_OK, RunsBody(<<>>)),
     Resp(HTTP_OK, RunsBody(<<MkRun(1, JNull, StartNow)>>))}

ReleasesResps ==
    {Resp(NotFound, ErrorBody),
     Resp(HTTP_OK, EmptyList),
     Resp(HTTP_OK, JArray(<<MkRelease(1, StartNow)>>))}

RunRepos(id) ==
    {MkRepo(id, d, Python, StartNow, r, l) :
        d \in {JNull, JAbsent, App}, r \in RunsResps, l \in ReleasesResps}

\* the lists <<repo 1, ..., repo n>> with repo i drawn from Choices(i)
ListsOf(n, Choices(_)) ==
    LET lists[m \in 0..n] ==
            IF m = 0 THEN {<<>>}
            ELSE {Append(list, x) : list \in lists[m - 1], x \in Choices(m)}
    IN  lists[n]

\* the answers of a list endpoint: not a 200, or a 200 with one of the lists
ListResps(lists) ==
    {Resp(st, ErrorBody) : st \in Statuses \ {HTTP_OK}}
        \cup {Resp(HTTP_OK, JArray(list)) : list \in lists}

InitRun ==
    /\ remote \in
           {MkRemote(r, m) :
               r \in ListResps(UNION {ListsOf(n, RunRepos) : n \in 0..MaxRunRepos}),
               m \in {Resp(NotFound, ErrorBody), Resp(HTTP_OK, EmptyList),
                      Resp(HTTP_OK, JArray(<<MkMember(1)>>))}}
    /\ fs \in {File(PlainDoc), NoFile}
    /\ now = StartNow
    /\ proc = Idle
    /\ log = <<>>

SpecRun == InitRun /\ [][Next]_vars

\* the repositories of the remote that a run saw
Seen(run) == run.repos.items

\* what C2 says a fetch returns
BodyOr200(resp) == IF resp.status = HTTP_OK THEN resp.body ELSE EmptyList

\* the list under workflow_runs of a 200, empty without the key
RunsOr200(resp) ==
    IF resp.status # HTTP_OK THEN EmptyList
    ELSE IF resp.body.workflow_runs.kind = "absent" THEN EmptyList
    ELSE resp.body.workflow_runs

ListFetches(run) ==
    /\ run.repos = BodyOr200(remote.repos)
    /\ run.members = BodyOr200(remote.members)
    /\ \A i \in 1..Len(run.releases) :
           run.releases[i] = BodyOr200(Seen(run)[i].releases)

(* C2 as stated: each of the four fetches returns the parsed body of a 200
   and an empty result, without raising, for every other status. *)
C2_AsStated ==
    \A k \in 1..Len(log) :
        /\ ListFetches(log[k])
        /\ \A i \in 1..Len(log[k].workflow_runs) :
               log[k].workflow_runs[i] = BodyOr200(Seen(log[k])[i].runs)

(* C2, amended: get_org_repositories, get_org_members and get_repo_releases
   return the parsed body of a 200; get_workflow_runs returns the list under
   the key workflow_runs of the parsed body, the empty list when the key is
   missing.  For every other status each returns the empty list, and a run
   whose repository fetch got no 200 raises nothing. *)
C2_Fetch ==
    /\ \A k \in 1..Len(log) :
           /\ ListFetches(log[k])
           /\ \A i \in 1..Len(log[k].workflow_runs) :
                  log[k].workflow_runs[i] = RunsOr200(Seen(log[k])[i].runs)
    /\ log # <<>> /\ remote.repos.status # HTTP_OK => ~proc.raised

C2_Witness ==
    /\ log # <<>>
    /\ remote.members.status # HTTP_OK
    /\ LastRun.members = EmptyList
    /\ Len(LastRun.workflow_runs) > 0
    /\ LastRun.workflow_runs[1].items # <<>>
    /\ Seen(LastRun)[1].releases.status # HTTP_OK
    /\ LastRun.releases[1] = EmptyList

--------------------------------------------------------------------------
(* Exit codes *)

\* some repository among the first six carries a null description
NullDescription ==
    /\ remote.repos.status = HTTP_OK
    /\ \E i \in 1..Len(remote.repos.body.items) :
           i <= ActivityLimit /\ remote.repos.body.items[i].description = JNull

(* C3 as stated: a run fails with exit status 1 if the document does not
   exist; in every other case the run completes, the document is rewritten
   and the exit status is 0. *)
C3_AsStated ==
    log # <<>> =>
        IF ~LastRun.before.exists
        THEN proc.exit_code = 1 /\ fs = LastRun.before
        ELSE proc.exit_code = 0 /\ LastRun.wrote

(* C3, amended: no error but the missing document is caught.  A run whose
   formatting raises (a repository among the first six with a null
   description) ends with the exception, exit status 1 and the document
   untouched, whether the document exists or not; otherwise a run without
   the document returns failure, exit status 1; otherwise the run
   completes, the document is rewritten and the exit status is 0. *)
C3_ExitCodes ==
    log # <<>> =>
        IF NullDescription
        THEN /\ proc.raised /\ proc.exit_code = 1
             /\ ~LastRun.wrote /\ fs = LastRun.before
        ELSE IF ~LastRun.before.exists
        THEN /\ ~proc.raised /\ proc.exit_code = 1
             /\ ~LastRun.wrote /\ fs = LastRun.before
        ELSE /\ ~proc.raised /\ proc.exit_code = 0
             /\ LastRun.wrote
             /\ fs.content = LastRun.steps[Len(Markers)]
             /\ Len(log) = 1 => fs.content # LastRun.before.content

C3_Witness ==
    /\ log # <<>>
    /\ NullDescription
    /\ LastRun.before.exists
    /\ proc.raised /\ proc.exit_code = 1
    /\ fs.content = PlainDoc

--------------------------------------------------------------------------
(* The formatters over lists of repositories of every age *)

\* seconds before the clock: each day boundary and the second before it;
\* the first is a timestamp one second after the clock
AgeOffsets == {d * SecondsPerDay + e : d \in 0..MaxAgeDays, e \in {-1, 0}}

Success == JStr(<<"success">>)

\* a repository of one age, with or without a run and a release of that age
AgedRepos(id, date) ==
    {MkRepo(id, App, Python, date, Resp(HTTP_OK, RunsBody(r)),
            Resp(HTTP_OK, JArray(l))) :
        r \in {<<>>, <<MkRun(id, Success, date)>>},
        l \in {<<>>, <<MkRelease(id, date)>>}}

FmtRepos(id) == UNION {AgedRepos(id, StartNow - a) : a \in AgeOffsets}

InitFmt ==
    /\ remote \in
           {MkRemote(r, m) :
               r \in ListResps(UNION {ListsOf(n, FmtRepos) : n \in 0..MaxRepos}),
               m \in {Resp(HTTP_OK, EmptyList), Resp(HTTP_OK, JArray(<<MkMember(1)>>))}}
    /\ fs = File(PlainDoc)
    /\ now = StartNow
    /\ proc = Idle
    /\ log = <<>>

SpecFmt == InitFmt /\ [][update_readme]_vars

\* the runs that formatted their six fragments
Formatted == {k \in 1..Len(log) : log[k].contents # <<>>}

(* C5: for an empty list every formatter returns its own fallback sentence,
   never the empty string and never an exception. *)
C5_Fallbacks ==
    \A k \in 1..Len(log) :
        /\ log[k].repos.items = <<>> =>
               /\ k \in Formatted
               /\ log[k].contents[1] = <<"No recent activity found.">>
               /\ log[k].contents[2] = <<"No recent builds found.">>
               /\ log[k].contents[4] = <<"No repositories found.">>
               /\ log[k].contents[5] = <<"No recent releases found.">>
               /\ log[k].contents[6] = <<"No language data available.">>
        /\ k \in Formatted /\ log[k].members.items = <<>> =>
               log[k].contents[3] = <<"No team members found.">>

C5_Witness ==
    /\ log # <<>>
    /\ remote.repos.status = HTTP_OK
    /\ LastRun.repos.items = <<>>
    /\ LastRun.members.items = <<>>
    /\ Len(LastRun.contents) = 6
    /\ ~proc.raised

--------------------------------------------------------------------------
(* Ages *)

\* the whole days from date to clock, below zero for a later date
DayDifference(clock, date) ==
    CHOOSE d \in (-MaxAgeDays - 2)..(MaxAgeDays + 2) :
        d * SecondsPerDay <= clock - date /\ clock - date < (d + 1) * SecondsPerDay

\* line stands in content, and ends a line of it
LineIn(content, line) ==
    \E p \in 1..Len(content) :
        /\ p + Len(line) - 1 <= Len(content)
        /\ SubSeq(content, p, p + Len(line) - 1) = line
        /\ p + Len(line) <= Len(content) => content[p + Len(line)] = "\n"

\* the three renderings of C8; a difference below zero has none
StatedAge(d, unit) ==
    IF d = 0 THEN <<"today">>
    ELSE IF d = 1 THEN <<"yesterday">>
    ELSE IF d >= 2 THEN IntStr(d) \o <<unit>>
    ELSE <<>>

\* the renderings of the code: a difference below zero prints as a number
SignedAge(d, unit) ==
    IF d = 0 THEN <<"today">>
    ELSE IF d = 1 THEN <<"yesterday">>
    ELSE (IF d < 0 THEN <<"-">> \o NatDigits(-d) ELSE NatDigits(d)) \o <<unit>>

\* every age printed by run k is the rendering Age of its day difference
AgesAre(k, Age(_, _)) ==
    LET run == log[k]
        repos == Seen(run)
    IN  /\ \A i \in 1..Min(Len(repos), ActivityLimit) :
               LET d == DayDifference(run.clock, repos[i].updated_at)
               IN  LineIn(run.contents[1],
                          ActivityLine(ActivityEmoji(d), repos[i].name,
                                       repos[i].html_url, repos[i].language.val,
                                       repos[i].description.val,
                                       repos[i].stargazers_count,
                                       Age(d, " days ago")))
        /\ \A i \in 1..Min(Len(repos), BuildRepoLimit) :
               \A j \in 1..Len(run.workflow_runs[i].items) :
                   LET build == run.workflow_runs[i].items[j]
                   IN  LineIn(run.contents[2],
                              BuildLine(StatusEmoji(build), build.name,
                                        build.head_branch,
                                        Age(DayDifference(run.clock, build.created_at),
                                            "d ago")))
        /\ \A i \in 1..Len(ShownReleases(repos)) :
               LET release == ShownReleases(repos)[i]
               IN  LineIn(run.contents[5],
                          ReleaseLine(IF release.prerelease THEN "[flask]" ELSE "[rocket]",
                                      release.repo, release.tag, release.url,
                                      Age(DayDifference(run.clock, release.published_at),
                                          "d ago")))

(* C8 as stated: in the three formatters that print an age a day difference
   of 0 prints as today, of 1 as yesterday, of 2 or more as N days ago
   (activity) or Nd ago (build status, releases), and nothing else is
   printed. *)
C8_AsStated == \A k \in Formatted : AgesAre(k, StatedAge)

(* C8, amended: a day difference of 0 prints as today, of 1 as yesterday,
   and every other difference N, 2 or more or below zero for a timestamp
   later than the clock, as N days ago or Nd ago. *)
C8_Ages == \A k \in Formatted : AgesAre(k, SignedAge)

C8_Witness ==
    /\ log # <<>>
    /\ Seen(LastRun) # <<>>
    /\ DayDifference(LastRun.clock, Seen(LastRun)[1].updated_at) < 0
    /\ LastRun.workflow_runs[1].items # <<>>
    /\ LastRun.releases[1].items # <<>>
    /\ Len(LastRun.contents) = 6
    /\ LastRun.wrote

--------------------------------------------------------------------------
(* format_repository_activity over descriptions of every length *)

\* a description of n characters
Chars(n, shift) == [i \in 1..n |-> DigitChars[((i + shift) % 10) + 1]]

Descriptions ==
    {JNull, JAbsent}
        \cup {JStr(Chars(n, shift)) :
                 n \in 0..(DescLimit + MaxDescExtra), shift \in {0, 3}}

NoRuns == Resp(HTTP_OK, RunsBody(<<>>))

InitDesc ==
    /\ remote \in
           {MkRemote(Resp(HTTP_OK, JArray(<<MkRepo(1, d, Python, StartNow, NoRuns,
                                                  Resp(HTTP_OK, EmptyList))>>)),
                     Resp(HTTP_OK, EmptyList)) : d \in Descriptions}
    /\ fs = File(PlainDoc)
    /\ now = StartNow
    /\ proc = Idle
    /\ log = <<>>

SpecDesc == InitDesc /\ [][update_readme]_vars

\* what C9 says is printed of a description
StatedDescription(d) ==
    IF Len(d) <= DescLimit THEN d ELSE SubSeq(d, 1, DescLimit) \o <<"...">>

(* C9: format_repository_activity prints a description of at most 80
   characters as it is and one of more than 80 characters as its first 80
   characters and an ellipsis. *)
C9_Description ==
    \A k \in Formatted :
        \A i \in 1..Min(Len(Seen(log[k])), ActivityLimit) :
            LET repo == Seen(log[k])[i]
            IN  repo.description.kind = "str" =>
                    LineIn(log[k].contents[1],
                           ActivityLine("[fire]", repo.name, repo.html_url,
                                        repo.language.val,
                                        StatedDescription(repo.description.val),
                                        repo.stargazers_count, <<"today">>))

C9_Witness ==
    /\ log # <<>>
    /\ Len(LastRun.contents) = 6
    /\ Seen(LastRun)[1].description.kind = "str"
    /\ Len(Seen(LastRun)[1].description.val) > DescLimit
    /\ LastRun.wrote

--------------------------------------------------------------------------
(* format_latest_releases over releases published in any order *)

\* the days before the clock on which release j of repository id may have
\* been published: two of the days 0..MaxRelDay
ReleaseDays(id, j) ==
    {(id + j) % (MaxRelDay + 1), (id + j + 1) % (MaxRelDay + 1)}

\* up to two releases of a repository
ReleaseLists(id) ==
    UNION {{[j \in 1..n |->
                MkRelease(100 * id + 10 * j + days[j],
                          StartNow - days[j] * SecondsPerDay)] :
               days \in ListsOf(n, LAMBDA j : ReleaseDays(id, j))} :
              n \in 0..ReleasesPerRepo}

RelRepos(id) ==
    {MkRepo(id, App, Python, StartNow, NoRuns, Resp(HTTP_OK, JArray(l))) :
        l \in ReleaseLists(id)}

InitRel ==
    /\ remote \in
           {MkRemote(Resp(HTTP_OK, JArray(list)), Resp(HTTP_OK, EmptyList)) :
               list \in UNION {ListsOf(n, RelRepos) : n \in 0..MaxRelRepos}}
    /\ fs = File(PlainDoc)
    /\ now = StartNow
    /\ proc = Idle
    /\ log = <<>>

SpecRel == InitRel /\ [][update_readme]_vars

\* the positions of the newlines of a text
Newlines(content) == {p \in 1..Len(content) : content[p] = "\n"}

NumLines(content) == Cardinality(Newlines(content)) + 1

\* the position of the n-th newline; 0 before the text, past its end after
NewlineAt(content, n) ==
    IF n = 0 THEN 0
    ELSE IF n > Cardinality(Newlines(content)) THEN Len(content) + 1
    ELSE CHOOSE p \in Newlines(content) :
             Cardinality({q \in Newlines(content) : q <= p}) = n

\* line r of a text
LineAt(content, r) ==
    SubSeq(content, NewlineAt(content, r - 1) + 1, NewlineAt(content, r) - 1)

\* the releases a run fetched: <<i, j>> is release j of repository i
FetchedReleases(run) ==
    {x \in (1..Len(run.releases)) \X (1..ReleasesPerRepo) :
        x[2] <= Len(run.releases[x[1]].items)}

ReleaseAt(run, x) == run.releases[x[1]].items[x[2]]

\* the line of a fetched release
LineOf(run, x) ==
    LET release == ReleaseAt(run, x)
    IN  ReleaseLine(IF release.prerelease THEN "[flask]" ELSE "[rocket]",
                    Seen(run)[x[1]].name, release.tag_name, release.html_url,
                    SignedAge(DayDifference(run.clock, release.published_at), "d ago"))

\* x was fetched before y
FetchedBefore(x, y) == x[1] < y[1] \/ (x[1] = y[1] /\ x[2] < y[2])

\* the fetched release whose line is line r of the releases fragment;
\* <<0, 0>> when the line is the line of no fetched release
ShownAt(run, r) ==
    LET line == LineAt(run.contents[5], r)
    IN  IF \E x \in FetchedReleases(run) : LineOf(run, x) = line
        THEN CHOOSE x \in FetchedReleases(run) : LineOf(run, x) = line
        ELSE <<0, 0>>

RECURSIVE ShownFrom(_, _)
\* the releases of the lines r, r + 1, ... of the fragment
ShownFrom(run, r) ==
    IF r > NumLines(run.contents[5]) THEN <<>>
    ELSE <<ShownAt(run, r)>> \o ShownFrom(run, r + 1)

PublishedAt(run, x) == ReleaseAt(run, x).published_at

\* the runs that fetched a release
WithReleases == {k \in Formatted : FetchedReleases(log[k]) # {}}

(* C6 as stated: the entries of format_latest_releases are in strictly
   descending order of publish time, and at most 5. *)
C6_AsStated ==
    \A k \in WithReleases :
        LET run == log[k]
            shown == ShownFrom(run, 1)
        IN  /\ Len(shown) <= ReleaseLimit
            /\ \A r \in 1..Len(shown) : shown[r] \in FetchedReleases(run)
            /\ \A r \in 1..(Len(shown) - 1) :
                   PublishedAt(run, shown[r]) > PublishedAt(run, shown[r + 1])

(* C6, amended: the entries are the latest releases fetched, at most 5, in
   descending order of publish time; the order is not strict: releases
   published at the same time follow each other in the order of the fetch. *)
C6_Descending ==
    \A k \in WithReleases :
        LET run == log[k]
            shown == ShownFrom(run, 1)
            n == Len(shown)
            Behind(x, y) ==
                \/ PublishedAt(run, x) > PublishedAt(run, y)
                \/ /\ PublishedAt(run, x) = PublishedAt(run, y)
                   /\ FetchedBefore(x, y)
        IN  /\ n = Min(ReleaseLimit, Cardinality(FetchedReleases(run)))
            /\ \A r \in 1..n : shown[r] \in FetchedReleases(run)
            /\ \A r \in 1..(n - 1) : Behind(shown[r], shown[r + 1])
            /\ \A x \in FetchedReleases(run) \ {shown[r] : r \in 1..n} :
                   Behind(shown[n], x)

C6_Witness ==
    /\ log # <<>>
    /\ LastRun.wrote
    /\ Cardinality(FetchedReleases(LastRun)) > ReleaseLimit
    /\ NumLines(LastRun.contents[5]) = ReleaseLimit
    /\ \E x, y \in FetchedReleases(LastRun) :
           /\ FetchedBefore(x, y)
           /\ ReleaseAt(LastRun, x).published_at < ReleaseAt(LastRun, y).published_at
    /\ PublishedAt(LastRun, ShownAt(LastRun, 1)) = PublishedAt(LastRun, ShownAt(LastRun, 2))

--------------------------------------------------------------------------
(* format_org_languages over repositories with and without a language *)

Lang(i) == JStr(<<"Lang">> \o IntStr(i))

\* the language of repository i: its own or, among the first repositories,
\* none or one shared with another repository
LangChoices(i) ==
    {Lang(i)} \cup (IF i <= MaxShared THEN {JNull, Lang(1), Lang(2)} ELSE {})

LangRepos(id) ==
    {MkRepo(id, App, l, StartNow, NoRuns, Resp(HTTP_OK, EmptyList)) :
        l \in LangChoices(id)}

InitLang ==
    /\ remote \in
           {MkRemote(Resp(HTTP_OK, JArray(list)), Resp(HTTP_OK, EmptyList)) :
               list \in UNION {ListsOf(n, LangRepos) :
                                  n \in 0..RepoLimit}}
    /\ fs = File(PlainDoc)
    /\ now = StartNow
    /\ proc = Idle
    /\ log = <<>>

SpecLang == InitLang /\ [][update_readme]_vars

\* the repositories that declare a language, and the languages declared
Declaring(repos) == {i \in 1..Len(repos) : Truthy(repos[i].language)}

Declared(repos) == {repos[i].language : i \in Declaring(repos)}

CountOf(repos, language) ==
    Cardinality({i \in 1..Len(repos) : repos[i].language = language})

\* num / den as a percentage in tenths, to the nearest tenth (a tie to the
\* even one)
NearestTenth(num, den) ==
    CHOOSE t \in 0..1000 :
        LET diff == 2 * (1000 * num - t * den)
        IN  \/ -den < diff /\ diff < den
            \/ (diff = den \/ diff = -den) /\ t % 2 = 0

\* the text holds the words
Occurs(content, words) ==
    \E p \in 1..Len(content) :
        /\ p + Len(words) - 1 <= Len(content)
        /\ SubSeq(content, p, p + Len(words) - 1) = words

\* the languages the fragment shows
Shown(content, repos) ==
    {l \in Declared(repos) : Occurs(content, <<"**">> \o l.val \o <<"** (">>)}

\* every language shown is shown with its count and its share of total
SharesOf(content, repos, total) ==
    \A l \in Shown(content, repos) :
        Occurs(content, LanguageItem(l.val, CountOf(repos, l),
                                     NearestTenth(CountOf(repos, l), total)))

\* the runs in which a repository declares a language
WithLanguages == {k \in Formatted : Declaring(Seen(log[k])) # {}}

(* C7 as stated: the percentage of a language is its count as a share of the
   repositories that declare a language. *)
C7_AsStated ==
    \A k \in WithLanguages :
        SharesOf(log[k].contents[6], Seen(log[k]),
                 Cardinality(Declaring(Seen(log[k]))))

(* C7, amended: the percentage of a language is its count as a share of all
   the repositories fetched, declaring a language or not; the 8 languages
   with the most repositories are shown, or all when there are fewer. *)
C7_ShareOfAll ==
    \A k \in WithLanguages :
        LET repos == Seen(log[k])
            content == log[k].contents[6]
        IN  /\ SharesOf(content, repos, Len(repos))
            /\ Cardinality(Shown(content, repos))
                   = Min(LanguageLimit, Cardinality(Declared(repos)))
            /\ \A l \in Shown(content, repos) :
                   \A m \in Declared(repos) \ Shown(content, repos) :
                       CountOf(repos, l) >= CountOf(repos, m)

C7_Witness ==
    /\ log # <<>>
    /\ LastRun.wrote
    /\ Declaring(Seen(LastRun)) # {}
    /\ Cardinality(Declaring(Seen(LastRun))) < Len(Seen(LastRun))
    /\ Cardinality(Declared(Seen(LastRun))) > LanguageLimit
    /\ Cardinality(Shown(LastRun.contents[6], Seen(LastRun))) = LanguageLimit

==========================================================================
